---- MODULE Spec2Model ----
(***************************************************************************)
(* A model of the CSS tutor MCP server (clarkngo/css-mcp-server).          *)
(*                                                                         *)
(* The server keeps one JSON document (data/memory.json) and registers a   *)
(* prompt, a resource and up to three tools on an McpServer.  The model    *)
(* has the file as a sequence of JSON tokens, the registry as the ordered  *)
(* list of registered capabilities, and every request as an invocation     *)
(* that advances from one await to the next.                               *)
(***************************************************************************)
EXTENDS Integers, Sequences, FiniteSets, TLC

(***************************************************************************)
(* Bounds of the model.                                                    *)
(***************************************************************************)
\* Number of requests the client sends in one run.
MaxInvocations == 2

(***************************************************************************)
(* JSON values, as JavaScript holds them in memory.  An object keeps its   *)
(* members in insertion order.                                             *)
(***************************************************************************)
JStr(x) == [t |-> "string", s |-> x]
JBool(x) == [t |-> "boolean", b |-> x]
JNum(x) == [t |-> "number", n |-> x]
JNull == [t |-> "null"]
JUndefined == [t |-> "undefined"]
JObj(members) == [t |-> "object", m |-> members]
JArr(elements) == [t |-> "array", e |-> elements]
Member(key, val) == [k |-> key, v |-> val]

IsObj(x) == x.t = "object"

\* obj.key, or undefined when the object has no such own property.
RECURSIVE FindMember(_, _, _)
FindMember(members, key, i) ==
    IF i > Len(members) THEN 0
    ELSE IF members[i].k = key THEN i
    ELSE FindMember(members, key, i + 1)

HasKey(obj, key) == FindMember(obj.m, key, 1) # 0

Get(obj, key) ==
    LET i == FindMember(obj.m, key, 1)
    IN  IF i = 0 THEN JUndefined ELSE obj.m[i].v

\* obj[key] = val: an existing property keeps its place, a new one is appended.
SetMember(obj, key, val) ==
    LET i == FindMember(obj.m, key, 1)
    IN  IF i = 0
        THEN JObj(Append(obj.m, Member(key, val)))
        ELSE JObj([obj.m EXCEPT ![i] = Member(key, val)])

Keys(obj) == {obj.m[i].k : i \in 1..Len(obj.m)}

(***************************************************************************)
(* JSON text: a sequence of tokens, whitespace included, so that two texts *)
(* are the same bytes exactly when they are the same sequence.             *)
(***************************************************************************)
Punct(c) == [t |-> "punct", s |-> c]
StrTok(x) == [t |-> "string", s |-> x]
LitTok(x) == [t |-> "literal", s |-> x]
NumTok(x) == [t |-> "number", s |-> x]
WsTok(x) == [t |-> "ws", s |-> x]

\* A line break followed by two spaces per nesting level.
Indent(depth) ==
    CASE depth = 0 -> WsTok("\n")
      [] depth = 1 -> WsTok("\n  ")
      [] depth = 2 -> WsTok("\n    ")
      [] OTHER -> WsTok("\n      ")

\* JSON.stringify(value, null, pretty ? 2 : undefined)
RECURSIVE Stringify(_, _, _), StringifyMembers(_, _, _, _), StringifyElements(_, _, _, _)
Stringify(value, pretty, depth) ==
    CASE value.t = "string" -> <<StrTok(value.s)>>
      [] value.t = "boolean" -> <<LitTok(IF value.b THEN "true" ELSE "false")>>
      [] value.t = "number" -> <<NumTok(value.n)>>
      [] value.t = "null" -> <<LitTok("null")>>
      [] value.t = "object" ->
            IF Len(value.m) = 0 THEN <<Punct("{"), Punct("}")>>
            ELSE <<Punct("{")>>
                 \o StringifyMembers(value.m, pretty, depth + 1, 1)
                 \o (IF pretty THEN <<Indent(depth)>> ELSE <<>>)
                 \o <<Punct("}")>>
      [] value.t = "array" ->
            IF Len(value.e) = 0 THEN <<Punct("["), Punct("]")>>
            ELSE <<Punct("[")>>
                 \o StringifyElements(value.e, pretty, depth + 1, 1)
                 \o (IF pretty THEN <<Indent(depth)>> ELSE <<>>)
                 \o <<Punct("]")>>
      [] OTHER -> <<>>

StringifyMembers(members, pretty, depth, i) ==
    IF i > Len(members) THEN <<>>
    ELSE (IF i > 1 THEN <<Punct(",")>> ELSE <<>>)
         \o (IF pretty THEN <<Indent(depth)>> ELSE <<>>)
         \o <<StrTok(members[i].k), Punct(":")>>
         \o (IF pretty THEN <<WsTok(" ")>> ELSE <<>>)
         \o Stringify(members[i].v, pretty, depth)
         \o StringifyMembers(members, pretty, depth, i + 1)

StringifyElements(elements, pretty, depth, i) ==
    IF i > Len(elements) THEN <<>>
    ELSE (IF i > 1 THEN <<Punct(",")>> ELSE <<>>)
         \o (IF pretty THEN <<Indent(depth)>> ELSE <<>>)
         \o Stringify(elements[i], pretty, depth)
         \o StringifyElements(elements, pretty, depth, i + 1)

\* The text without its whitespace tokens.
RECURSIVE StripWs(_)
StripWs(text) ==
    IF Len(text) = 0 THEN <<>>
    ELSE IF Head(text).t = "ws" THEN StripWs(Tail(text))
    ELSE <<Head(text)>> \o StripWs(Tail(text))

\* JSON.parse: a recursive descent over the tokens.  A result is
\* [ok, val, next]; ok = FALSE is the SyntaxError JSON.parse throws.
ParseFail == [ok |-> FALSE, val |-> JNull, next |-> 0]
ParseOk(val, next) == [ok |-> TRUE, val |-> val, next |-> next]

RECURSIVE ParseValue(_, _), ParseMembers(_, _, _), ParseElements(_, _, _)
ParseValue(toks, i) ==
    IF i > Len(toks) THEN ParseFail
    ELSE LET tk == toks[i] IN
         CASE tk.t = "string" -> ParseOk(JStr(tk.s), i + 1)
           [] tk.t = "number" -> ParseOk(JNum(tk.s), i + 1)
           [] tk.t = "literal" ->
                 ParseOk(CASE tk.s = "true" -> JBool(TRUE)
                           [] tk.s = "false" -> JBool(FALSE)
                           [] OTHER -> JNull, i + 1)
           [] tk = Punct("{") ->
                 IF i + 1 <= Len(toks) /\ toks[i + 1] = Punct("}")
                 THEN ParseOk(JObj(<<>>), i + 2)
                 ELSE ParseMembers(toks, i + 1, JObj(<<>>))
           [] tk = Punct("[") ->
                 IF i + 1 <= Len(toks) /\ toks[i + 1] = Punct("]")
                 THEN ParseOk(JArr(<<>>), i + 2)
                 ELSE ParseElements(toks, i + 1, <<>>)
           [] OTHER -> ParseFail

\* "key" : value ( , "key" : value )* }   A repeated key keeps the last value.
ParseMembers(toks, i, acc) ==
    IF i + 1 > Len(toks) \/ toks[i].t # "string" \/ toks[i + 1] # Punct(":")
    THEN ParseFail
    ELSE LET r == ParseValue(toks, i + 2) IN
         IF ~r.ok \/ r.next > Len(toks) THEN ParseFail
         ELSE LET obj == SetMember(acc, toks[i].s, r.val) IN
              IF toks[r.next] = Punct("}") THEN ParseOk(obj, r.next + 1)
              ELSE IF toks[r.next] = Punct(",") THEN ParseMembers(toks, r.next + 1, obj)
              ELSE ParseFail

ParseElements(toks, i, acc) ==
    LET r == ParseValue(toks, i) IN
    IF ~r.ok \/ r.next > Len(toks) THEN ParseFail
    ELSE IF toks[r.next] = Punct("]") THEN ParseOk(JArr(Append(acc, r.val)), r.next + 1)
    ELSE IF toks[r.next] = Punct(",") THEN ParseElements(toks, r.next + 1, Append(acc, r.val))
    ELSE ParseFail

JsonParse(text) ==
    LET toks == StripWs(text)
        r == ParseValue(toks, 1)
    IN  IF r.ok /\ r.next = Len(toks) + 1 THEN r ELSE ParseFail

(***************************************************************************)
(* Errors.  Every error the code throws is an Error with a message: the    *)
(* fixed text the code puts first, then what it interpolates.              *)
(***************************************************************************)
Err(msg, det) == [message |-> msg, detail |-> det]
NoError == Err("", <<>>)

(***************************************************************************)
(* src/resources/index.ts: the schema and the two store functions.         *)
(***************************************************************************)
\* The file data/memory.json does not exist.
NoFile == <<[t |-> "absent", s |-> "ENOENT"]>>

RECURSIVE AllBoolean(_, _)
AllBoolean(members, i) ==
    IF i > Len(members) THEN TRUE
    ELSE members[i].v.t = "boolean" /\ AllBoolean(members, i + 1)

\* The schema with known_concepts any record.
MemorySchemaAnyRecord(value) ==
    /\ value.t = "object"
    /\ Get(value, "user_id").t = "string"
    /\ Get(value, "known_concepts").t = "object"

\* MemorySchema.parse(value) succeeds.
MemorySchemaOk(value) ==
    /\ value.t = "object"
    /\ Get(value, "user_id").t = "string"
    /\ Get(value, "known_concepts").t = "object"
    /\ AllBoolean(Get(value, "known_concepts").m, 1)

\* What MemorySchema.parse(value) returns: the two keys of the schema, in the
\* schema's order; any other key of the input is stripped.
MemorySchemaParse(value) ==
    JObj(<<Member("user_id", Get(value, "user_id")),
           Member("known_concepts", Get(value, "known_concepts"))>>)

ReadError(cause) == Err("Failed to read/parse memory file: ", <<StrTok(cause)>>)
WriteError(cause) == Err("Failed to validate/write memory file: ", <<StrTok(cause)>>)

\* readMemory() on a file holding `content`: [ok, val, error].
readMemory(content) ==
    IF content = NoFile
    THEN [ok |-> FALSE, val |-> JNull, error |-> ReadError("ENOENT")]
    ELSE LET parsed == JsonParse(content) IN
         IF ~parsed.ok
         THEN [ok |-> FALSE, val |-> JNull, error |-> ReadError("SyntaxError")]
         ELSE IF ~MemorySchemaOk(parsed.val)
         THEN [ok |-> FALSE, val |-> JNull, error |-> ReadError("ZodError")]
         ELSE [ok |-> TRUE, val |-> MemorySchemaParse(parsed.val), error |-> NoError]

\* writeMemory(newData) up to its await: the validation and the text it
\* hands to fs.writeFile.  [ok, data, error].
writeMemoryPrepare(newData) ==
    IF ~MemorySchemaOk(newData)
    THEN [ok |-> FALSE, data |-> <<>>, error |-> WriteError("ZodError")]
    ELSE [ok |-> TRUE, data |-> Stringify(newData, TRUE, 0), error |-> NoError]

(***************************************************************************)
(* The capability registry of McpServer: the ordered list of registered    *)
(* capabilities, each a name, a kind and the handler registered for it.    *)
(***************************************************************************)
Capability(name, kind, handler) == [name |-> name, kind |-> kind, handler |-> handler]

RECURSIVE FindCapability(_, _, _)
FindCapability(reg, name, i) ==
    IF i > Len(reg) THEN 0
    ELSE IF reg[i].name = name THEN i
    ELSE FindCapability(reg, name, i + 1)

NoCapability == Capability("", "", "")

\* A registering function that returned without an error: the registry
\* after it.
Registration(reg) == [ok |-> TRUE, reg |-> reg, cap |-> NoCapability]

\* A registry in which the last registration under a name wins.
RegisterReplacing(reg, cap) ==
    LET i == FindCapability(reg, cap.name, 1) IN
    IF i # 0
    THEN [ok |-> TRUE, reg |-> [reg EXCEPT ![i] = cap], cap |-> cap]
    ELSE [ok |-> TRUE, reg |-> Append(reg, cap), cap |-> cap]

\* register(name, kind, inputContract, handler): [ok, reg, cap].  A name
\* that is already registered is refused, which the caller sees as an
\* error thrown, and the registry is left as it was.
Register(reg, cap) ==
    IF FindCapability(reg, cap.name, 1) # 0
    THEN [ok |-> FALSE, reg |-> reg, cap |-> cap]
    ELSE [ok |-> TRUE, reg |-> Append(reg, cap), cap |-> cap]

\* The capabilities of one kind, by name, in registration order: list().
RECURSIVE ListNames(_, _, _)
ListNames(reg, kind, i) ==
    IF i > Len(reg) THEN <<>>
    ELSE (IF reg[i].kind = kind THEN <<reg[i].name>> ELSE <<>>)
         \o ListNames(reg, kind, i + 1)

\* The entry a request of this kind and name is dispatched to, 0 if none.
Lookup(reg, kind, name) ==
    LET i == FindCapability(reg, name, 1)
    IN  IF i # 0 /\ reg[i].kind = kind THEN i ELSE 0

UnknownCapability(name) == Err("not found: ", <<StrTok(name)>>)
InvalidInput(name) == Err("Invalid arguments for ", <<StrTok(name)>>)

(***************************************************************************)
(* src/prompts/index.ts, src/resources/index.ts, src/tools/index.ts: what  *)
(* each module registers.                                                  *)
(***************************************************************************)
\* process.env.OPENROUTER_API_KEY is not set.
NoKey == "<undefined>"
\* The prompt file css_updater_prompt.txt cannot be read.
NoPromptFile == <<[t |-> "absent", s |-> "ENOENT"]>>

\* !openRouterApiKey
KeyMissing(key) == key = NoKey \/ key = ""

\* registerCssTutorPrompt letting the error of fs.readFileSync out.
registerPromptsThrows(reg, promptFile) ==
    IF promptFile = NoPromptFile
    THEN [ok |-> FALSE, reg |-> reg,
          cap |-> Capability("css-tutor-guidance", "prompt", "cssTutorPrompt")]
    ELSE Registration(Register(reg, Capability("css-tutor-guidance", "prompt", "cssTutorPrompt")).reg)

\* registerCssTutorPrompt: a failure to read the prompt file, and any error
\* of server.prompt, is caught and logged; nothing is registered then.
registerPrompts(reg, promptFile) ==
    IF promptFile = NoPromptFile
    THEN Registration(reg)
    ELSE Registration(Register(reg, Capability("css-tutor-guidance", "prompt", "cssTutorPrompt")).reg)

registerResources(reg) ==
    Register(reg, Capability("css_knowledge_memory", "resource", "cssKnowledgeMemory"))

registerReadFromMemoryTool(reg) ==
    Register(reg, Capability("read_from_memory", "tool", "readFromMemory"))

registerWriteToMemoryTool(reg) ==
    Register(reg, Capability("write_to_memory", "tool", "writeToMemory"))

\* The registration without the check of the key.
registerGetLatestUpdatesAlways(reg, key) ==
    Register(reg, Capability("get_latest_updates", "tool", "getLatestUpdates"))

registerGetLatestUpdatesTool(reg, key) ==
    IF KeyMissing(key)
    THEN Registration(reg)
    ELSE Register(reg, Capability("get_latest_updates", "tool", "getLatestUpdates"))

\* registerTools giving up on all three tools when the key is missing.
registerToolsNeedsKey(reg, key) ==
    IF KeyMissing(key) THEN Registration(reg)
    ELSE Register(Register(Register(reg,
            Capability("read_from_memory", "tool", "readFromMemory")).reg,
            Capability("write_to_memory", "tool", "writeToMemory")).reg,
            Capability("get_latest_updates", "tool", "getLatestUpdates"))

\* registerTools: the three registrations in order; the first that throws
\* ends it.
registerTools(reg, key) ==
    LET r1 == registerReadFromMemoryTool(reg) IN
    IF ~r1.ok THEN r1
    ELSE LET r2 == registerWriteToMemoryTool(r1.reg) IN
         IF ~r2.ok THEN r2
         ELSE registerGetLatestUpdatesTool(r2.reg, key)

\* The input shape of a handler accepts the raw arguments.
writeMemoryInputShape(args) ==
    /\ args.t = "object"
    /\ Get(args, "concept").t = "string"
    /\ Get(args, "known").t = "boolean"

InputOk(handler, args) ==
    IF handler = "writeToMemory" THEN writeMemoryInputShape(args) ELSE args.t = "object"

\* updatedMemory without the spread of the concepts read.
updatedMemoryNoSpread(currentMemory, concept, known) ==
    SetMember(currentMemory, "known_concepts", JObj(<<Member(concept, known)>>))

\* updatedMemory built anew, under the user of the seed of the repository.
updatedMemoryNewOwner(currentMemory, concept, known) ==
    JObj(<<Member("user_id", JStr("default_user")),
           Member("known_concepts",
                  SetMember(Get(currentMemory, "known_concepts"), concept, known))>>)

\* updatedMemory of write_to_memory: the document read, with
\* known_concepts[concept] set.
updatedMemory(currentMemory, concept, known) ==
    SetMember(currentMemory, "known_concepts",
              SetMember(Get(currentMemory, "known_concepts"), concept, known))

(***************************************************************************)
(* The OpenRouter call of get_latest_updates.                              *)
(***************************************************************************)
Response(status, statusText, body) ==
    [status |-> status, statusText |-> statusText, body |-> body]
NoResponse == Response(0, "", <<>>)

\* response.ok
ResponseOk(resp) == resp.status >= 200 /\ resp.status <= 299

\* x?.[0]
Index0(x) ==
    CASE x.t = "array" -> IF Len(x.e) = 0 THEN JUndefined ELSE x.e[1]
      [] x.t = "object" -> Get(x, "0")
      [] OTHER -> JUndefined

\* x?.key (and x.key for a value that is neither null nor undefined)
Prop(x, key) == IF x.t = "object" THEN Get(x, key) ELSE JUndefined

\* data.choices?.[0]?.message?.content
assistantMessage(data) == Prop(Prop(Index0(Prop(data, "choices")), "message"), "content")

\* !value
Falsy(value) ==
    \/ value.t \in {"undefined", "null"}
    \/ value.t = "string" /\ value.s = ""
    \/ value.t = "boolean" /\ ~value.b
    \/ value.t = "number" /\ value.n = "0"

UpstreamError(resp) ==
    Err("OpenRouter API request failed: ",
        <<NumTok(ToString(resp.status)), WsTok(" "), StrTok(resp.statusText),
          WsTok(" "), Punct("-"), WsTok(" ")>> \o resp.body)
ExtractError == Err("Could not extract assistant message from OpenRouter response.", <<>>)

(***************************************************************************)
(* The inputs of a run.                                                    *)
(***************************************************************************)
Doc(userId, concepts) ==
    JObj(<<Member("user_id", userId), Member("known_concepts", concepts)>>)

\* What data/memory.json may hold when the server starts.
SeedFiles ==
    { NoFile,
      \* the seed of the repository
      Stringify(Doc(JStr("default_user"), JObj(<<>>)), TRUE, 0),
      \* a document written by hand, on one line
      Stringify(Doc(JStr("u1"), JObj(<<Member("Flexbox", JBool(FALSE))>>)), FALSE, 0),
      \* a key the schema does not know
      Stringify(SetMember(Doc(JStr("u1"), JObj(<<>>)), "note", JStr("x")), TRUE, 0),
      \* a value under known_concepts that is no boolean
      Stringify(Doc(JStr("u1"), JObj(<<Member("Grid", JStr("yes"))>>)), TRUE, 0),
      \* no JSON at all
      <<Punct("{")>> }

\* The guidance text with the two memory tools named before the updates.
cssTutorPromptTextMemoryFirst ==
    <<StrTok("Available Tools:"),
      StrTok("read_from_memory"), StrTok("write_to_memory"), StrTok("get_latest_updates"),
      StrTok("Workflow:"),
      StrTok("read_from_memory"), StrTok("write_to_memory"), StrTok("get_latest_updates")>>

\* The guidance text: the capability names it mentions, in the order of the
\* text, with the prose between them.
cssTutorPromptText ==
    <<StrTok("Available Tools:"),
      StrTok("get_latest_updates"), StrTok("read_from_memory"), StrTok("write_to_memory"),
      StrTok("Workflow:"),
      StrTok("get_latest_updates"), StrTok("read_from_memory"), StrTok("write_to_memory")>>

\* What css_updater_prompt.txt may come to hold while the server runs: the
\* text of the repository, nothing, or a text edited to name write_to_memory
\* first and get_latest_updates not at all.
PromptFiles ==
    { NoPromptFile,
      cssTutorPromptText,
      <<StrTok("Workflow:"), StrTok("write_to_memory"), StrTok("read_from_memory")>> }

\* What the environment may hold under OPENROUTER_API_KEY.
Credentials == {NoKey, "", "sk-or-v1"}

Concepts == {"", "Flexbox", "Grid"}

WriteArgs(concept, known) ==
    JObj(<<Member("concept", concept), Member("known", known)>>)

Request(kind, name, args) == [kind |-> kind, name |-> name, args |-> args]

\* The requests a client may send.
Requests ==
    { Request("prompt", "css-tutor-guidance", JObj(<<>>)),
      Request("resource", "css_knowledge_memory", JObj(<<>>)),
      Request("tool", "read_from_memory", JObj(<<>>)),
      Request("tool", "get_latest_updates", JObj(<<>>)),
      \* a name no module registers
      Request("tool", "get-random-city", JObj(<<>>)),
      \* arguments the input shape refuses
      Request("tool", "write_to_memory", WriteArgs(JNum("42"), JBool(TRUE))),
      Request("tool", "write_to_memory", WriteArgs(JStr("Grid"), JStr("yes"))),
      Request("tool", "write_to_memory", JObj(<<Member("known", JBool(TRUE))>>)) }
    \cup { Request("tool", "write_to_memory", WriteArgs(JStr(c), JBool(k))) :
             c \in Concepts, k \in BOOLEAN }

Completion(content) ==
    JObj(<<Member("choices",
            JArr(<<JObj(<<Member("message", JObj(<<Member("content", content)>>))>>)>>))>>)

\* The responses OpenRouter may give.
Responses ==
    { Response(200, "OK", Stringify(Completion(JStr("Anchor positioning shipped")), FALSE, 0)),
      Response(200, "OK", Stringify(Completion(JStr("")), FALSE, 0)),
      Response(200, "OK", Stringify(Completion(JNull), FALSE, 0)),
      Response(200, "OK", Stringify(JObj(<<Member("choices", JArr(<<>>))>>), FALSE, 0)),
      Response(200, "OK", Stringify(JObj(<<Member("choices", JArr(<<JObj(<<>>)>>))>>), FALSE, 0)),
      Response(200, "OK", Stringify(JObj(<<Member("error", JStr("overloaded"))>>), FALSE, 0)),
      Response(200, "OK", <<LitTok("null")>>),
      Response(200, "OK", <<Punct("<")>>),
      Response(401, "Unauthorized", Stringify(JObj(<<Member("error", JStr("bad key"))>>), FALSE, 0)),
      Response(500, "Internal Server Error", <<>>) }

(***************************************************************************)
(* State.                                                                  *)
(***************************************************************************)
VARIABLES
    pcMain,            \* where src/index.ts is
    openRouterApiKey,  \* the constant of src/tools/index.ts
    env,               \* process.env.OPENROUTER_API_KEY
    promptFile,        \* css_updater_prompt.txt
    promptText,        \* what registerCssTutorPrompt read from it
    registry,          \* server: the registered capabilities
    registerResult,    \* the outcome of the last registration
    file,              \* data/memory.json
    inv,               \* the requests received, each with its handler's state
    storeLog           \* the accesses to data/memory.json, in order

vars == <<pcMain, openRouterApiKey, env, promptFile, promptText, registry, registerResult, file, inv, storeLog>>

Result(status, text, error) == [status |-> status, text |-> text, error |-> error]
NoResult == Result("none", <<>>, NoError)
Success(text) == Result("success", text, NoError)
Failure(error) == Result("failure", <<>>, error)

Invocations == 1..MaxInvocations

NoRegistration == [ok |-> TRUE, cap |-> NoCapability]

Idle ==
    [pc |-> "idle", kind |-> "", name |-> "", args |-> JObj(<<>>), handler |-> "",
     currentMemory |-> JNull, data |-> <<>>, requests |-> 0,
     response |-> NoResponse, result |-> NoResult]

Init ==
    /\ pcMain = "registerPrompts"
    /\ env \in Credentials
    /\ openRouterApiKey = env
    /\ promptFile \in {NoPromptFile, cssTutorPromptText}
    /\ promptText = NoPromptFile
    /\ registry = <<>>
    /\ registerResult = NoRegistration
    /\ file \in SeedFiles
    /\ inv = [i \in Invocations |-> Idle]
    /\ storeLog = <<>>

(***************************************************************************)
(* src/index.ts: the registrations, then main().                           *)
(***************************************************************************)
\* An error thrown by a registration at the top level ends the process.
Startup(step, r, next) ==
    /\ pcMain = step
    /\ registry' = r.reg
    /\ registerResult' = [ok |-> r.ok, cap |-> r.cap]
    /\ pcMain' = IF r.ok THEN next ELSE "crashed"
    /\ UNCHANGED <<openRouterApiKey, env, promptFile, file, inv, storeLog>>

\* fs.readFileSync gives the handler of the prompt its text.
RegisterPrompts ==
    /\ Startup("registerPrompts", registerPrompts(registry, promptFile), "registerResources")
    /\ promptText' = promptFile

RegisterResources ==
    /\ Startup("registerResources", registerResources(registry), "registerTools")
    /\ UNCHANGED promptText

RegisterTools ==
    /\ Startup("registerTools", registerTools(registry, openRouterApiKey), "main")
    /\ UNCHANGED promptText

\* main(): server.connect(transport) resolves.
Main ==
    /\ pcMain = "main"
    /\ pcMain' = "running"
    /\ UNCHANGED <<openRouterApiKey, env, promptFile, promptText, registry, registerResult, file, inv, storeLog>>

\* main().catch: server.connect rejects and the process exits with code 1.
MainCatch ==
    /\ pcMain = "main"
    /\ pcMain' = "exited"
    /\ UNCHANGED <<openRouterApiKey, env, promptFile, promptText, registry, registerResult, file, inv, storeLog>>

(***************************************************************************)
(* A request: the dispatch of McpServer, then the handler, one action for  *)
(* each stretch of code between two awaits.                                *)
(***************************************************************************)
Set(i, rec) == inv' = [inv EXCEPT ![i] = rec]
Done(rec, result) == [rec EXCEPT !.pc = "done", !.result = result]
Logged(i, op) == storeLog' = Append(storeLog, [inv |-> i, op |-> op])

\* The handlers, with get_latest_updates looking for the key in the
\* environment when it is called.
StartHandlerReadsEnv(rec, prompt) ==
    CASE rec.handler = "cssTutorPrompt" -> Done(rec, Success(prompt))
      [] rec.handler = "getLatestUpdates" ->
            IF KeyMissing(env)
            THEN Done(rec, Failure(Err("OPENROUTER_API_KEY not found", <<>>)))
            ELSE [rec EXCEPT !.pc = "fetch", !.requests = @ + 1]
      [] OTHER -> [rec EXCEPT !.pc = "readMemory"]

\* The handlers, with the prompt reading css_updater_prompt.txt when it is
\* called.
StartHandlerReadsFile(rec, prompt) ==
    CASE rec.handler = "cssTutorPrompt" ->
            IF promptFile = NoPromptFile
            THEN Done(rec, Failure(Err("ENOENT: no such file or directory", <<>>)))
            ELSE Done(rec, Success(promptFile))
      [] rec.handler = "getLatestUpdates" -> [rec EXCEPT !.pc = "fetch", !.requests = @ + 1]
      [] OTHER -> [rec EXCEPT !.pc = "readMemory"]

\* The handler from its call to its first await.
StartHandler(rec, prompt) ==
    CASE rec.handler = "cssTutorPrompt" -> Done(rec, Success(prompt))
      [] rec.handler = "getLatestUpdates" -> [rec EXCEPT !.pc = "fetch", !.requests = @ + 1]
      [] OTHER -> [rec EXCEPT !.pc = "readMemory"]

\* invoke(name, rawInput): an unknown name and arguments the input shape
\* refuses fail before any handler runs.
Invoke(reg, req, prompt) ==
    LET e == Lookup(reg, req.kind, req.name)
        rec == [Idle EXCEPT !.kind = req.kind, !.name = req.name, !.args = req.args]
    IN  IF e = 0 THEN Done(rec, Failure(UnknownCapability(req.name)))
        ELSE IF ~InputOk(reg[e].handler, req.args)
        THEN Done(rec, Failure(InvalidInput(req.name)))
        ELSE StartHandler([rec EXCEPT !.handler = reg[e].handler], prompt)

\* The transport hands the next request of the client to the server; the
\* handlers of earlier requests may still be waiting.
Receive(i) ==
    /\ pcMain = "running"
    /\ inv[i].pc = "idle"
    /\ \A j \in 1..(i - 1) : inv[j].pc # "idle"
    /\ \E req \in Requests : Set(i, Invoke(registry, req, promptText))
    /\ UNCHANGED <<pcMain, openRouterApiKey, env, promptFile, promptText, registry, registerResult, file, storeLog>>

\* read_from_memory answering a failed read with an empty document.
readFromMemoryDefault(rec, r) ==
    IF r.ok THEN Done(rec, Success(Stringify(r.val, TRUE, 0)))
    ELSE Done(rec, Success(Stringify(Doc(JStr("default_user"), JObj(<<>>)), TRUE, 0)))

\* read_from_memory after readMemory(): the document, indented by two.
readFromMemoryTool(rec, r) ==
    IF r.ok THEN Done(rec, Success(Stringify(r.val, TRUE, 0)))
    ELSE Done(rec, Failure(r.error))

\* The resource returning the concepts alone.
cssKnowledgeMemoryConceptsOnly(rec, r) ==
    IF r.ok THEN Done(rec, Success(Stringify(Get(r.val, "known_concepts"), FALSE, 0)))
    ELSE Done(rec, Failure(r.error))

\* The resource writing the document it read back to the file.
cssKnowledgeMemoryRewrites(rec, r) ==
    IF r.ok
    THEN [rec EXCEPT !.pc = "writeFile", !.currentMemory = r.val,
                     !.data = Stringify(r.val, TRUE, 0)]
    ELSE Done(rec, Failure(r.error))

\* css_knowledge_memory after readMemory(): the document, on one line.
cssKnowledgeMemoryResource(rec, r) ==
    IF r.ok THEN Done(rec, Success(Stringify(r.val, FALSE, 0)))
    ELSE Done(rec, Failure(r.error))

\* write_to_memory starting from an empty document when the read fails.
writeToMemoryCreates(rec, r) ==
    LET current == IF r.ok THEN r.val ELSE Doc(JStr("default_user"), JObj(<<>>))
        u == updatedMemory(current, Get(rec.args, "concept").s, Get(rec.args, "known"))
        w == writeMemoryPrepare(u)
    IN  IF ~w.ok THEN Done(rec, Failure(w.error))
        ELSE [rec EXCEPT !.pc = "writeFile", !.currentMemory = current, !.data = w.data]

\* write_to_memory after readMemory(), up to the await of fs.writeFile.
writeToMemoryTool(rec, r) ==
    IF ~r.ok THEN Done(rec, Failure(r.error))
    ELSE LET u == updatedMemory(r.val, Get(rec.args, "concept").s, Get(rec.args, "known"))
             w == writeMemoryPrepare(u)
         IN  IF ~w.ok THEN Done(rec, Failure(w.error))
             ELSE [rec EXCEPT !.pc = "writeFile", !.currentMemory = r.val, !.data = w.data]

\* fs.readFile of readMemory() completes and the handler runs on.
ReadMemory(i) ==
    /\ inv[i].pc = "readMemory"
    /\ LET r == readMemory(file) IN
       Set(i, CASE inv[i].handler = "readFromMemory" -> readFromMemoryTool(inv[i], r)
                [] inv[i].handler = "cssKnowledgeMemory" -> cssKnowledgeMemoryResource(inv[i], r)
                [] OTHER -> writeToMemoryTool(inv[i], r))
    /\ Logged(i, "read")
    /\ UNCHANGED <<pcMain, openRouterApiKey, env, promptFile, promptText, registry, registerResult, file>>

\* fs.writeFile opens the file for writing, which empties it.
WriteFileOpen(i) ==
    /\ inv[i].pc = "writeFile"
    /\ file' = <<>>
    /\ Set(i, [inv[i] EXCEPT !.pc = "writeFile.write"])
    /\ Logged(i, "truncate")
    /\ UNCHANGED <<pcMain, openRouterApiKey, env, promptFile, promptText, registry, registerResult>>

\* fs.writeFile cannot open the file: writeMemory throws.
WriteFileFail(i) ==
    /\ inv[i].pc = "writeFile"
    /\ Set(i, Done(inv[i], Failure(WriteError("EACCES"))))
    /\ UNCHANGED <<pcMain, openRouterApiKey, env, promptFile, promptText, registry, registerResult, file, storeLog>>

\* The confirmation of write_to_memory.
writeToMemoryResult(rec) ==
    Success(<<StrTok("Memory updated successfully for concept: "),
              StrTok(Get(rec.args, "concept").s)>>)

\* write(fd, data) on a descriptor at position 0: the text replaces what
\* the file holds from its start on, and what the file holds beyond the
\* length of the text (written through another descriptor since this one
\* was opened) stays.  The unit of length here is the token.
WriteAtStart(content, data) ==
    IF Len(content) > Len(data)
    THEN data \o SubSeq(content, Len(data) + 1, Len(content))
    ELSE data

\* fs.writeFile writes the text and write_to_memory returns.
WriteFileData(i) ==
    /\ inv[i].pc = "writeFile.write"
    /\ file' = WriteAtStart(file, inv[i].data)
    /\ Set(i, Done(inv[i], writeToMemoryResult(inv[i])))
    /\ Logged(i, "write")
    /\ UNCHANGED <<pcMain, openRouterApiKey, env, promptFile, promptText, registry, registerResult>>

\* fetch() rejects: no response at all.
FetchReject(i) ==
    /\ inv[i].pc = "fetch"
    /\ Set(i, Done(inv[i], Failure(Err("request to https://openrouter.ai/api/v1/chat/completions failed", <<>>))))
    /\ UNCHANGED <<pcMain, openRouterApiKey, env, promptFile, promptText, registry, registerResult, file, storeLog>>

\* The handler reading every response as JSON, ok or not.
getLatestUpdatesNoOkCheck(rec, resp) ==
    [rec EXCEPT !.response = resp, !.pc = "response.json"]

\* get_latest_updates after fetch(): which body reader it awaits next.
getLatestUpdatesAfterFetch(rec, resp) ==
    [rec EXCEPT !.response = resp,
                !.pc = IF ~ResponseOk(resp) THEN "response.text" ELSE "response.json"]

FetchResolve(i) ==
    /\ inv[i].pc = "fetch"
    /\ \E resp \in Responses : Set(i, getLatestUpdatesAfterFetch(inv[i], resp))
    /\ UNCHANGED <<pcMain, openRouterApiKey, env, promptFile, promptText, registry, registerResult, file, storeLog>>

\* The handler calling fetch() once more after a response that is not ok.
getLatestUpdatesNotOkRetry(rec) ==
    IF rec.requests < 2 THEN [rec EXCEPT !.pc = "fetch", !.requests = @ + 1]
    ELSE Done(rec, Failure(UpstreamError(rec.response)))

\* get_latest_updates after response.text(): the error of a response that
\* is not ok.
getLatestUpdatesNotOk(rec) == Done(rec, Failure(UpstreamError(rec.response)))

ResponseText(i) ==
    /\ inv[i].pc = "response.text"
    /\ Set(i, getLatestUpdatesNotOk(inv[i]))
    /\ UNCHANGED <<pcMain, openRouterApiKey, env, promptFile, promptText, registry, registerResult, file, storeLog>>

\* The handler returning whatever it extracted, without the check.
getLatestUpdatesNoCheck(rec) ==
    LET parsed == JsonParse(rec.response.body) IN
    IF ~parsed.ok THEN Done(rec, Failure(Err("invalid json response body", <<StrTok("SyntaxError")>>)))
    ELSE Done(rec, Success(Stringify(assistantMessage(parsed.val), FALSE, 0)))

\* get_latest_updates after response.json().
getLatestUpdatesOk(rec) ==
    LET parsed == JsonParse(rec.response.body) IN
    IF ~parsed.ok THEN Done(rec, Failure(Err("invalid json response body", <<StrTok("SyntaxError")>>)))
    ELSE IF parsed.val.t = "null"
    THEN Done(rec, Failure(Err("Cannot read properties of null (reading 'choices')", <<StrTok("TypeError")>>)))
    ELSE LET message == assistantMessage(parsed.val) IN
         IF Falsy(message) THEN Done(rec, Failure(ExtractError))
         ELSE Done(rec, Success(Stringify(message, FALSE, 0)))

ResponseJson(i) ==
    /\ inv[i].pc = "response.json"
    /\ Set(i, getLatestUpdatesOk(inv[i]))
    /\ UNCHANGED <<pcMain, openRouterApiKey, env, promptFile, promptText, registry, registerResult, file, storeLog>>

Next ==
    \/ RegisterPrompts
    \/ RegisterResources
    \/ RegisterTools
    \/ Main
    \/ MainCatch
    \/ \E i \in Invocations :
        \/ Receive(i)
        \/ ReadMemory(i)
        \/ WriteFileOpen(i)
        \/ WriteFileFail(i)
        \/ WriteFileData(i)
        \/ FetchReject(i)
        \/ FetchResolve(i)
        \/ ResponseText(i)
        \/ ResponseJson(i)

Spec == Init /\ [][Next]_vars

(***************************************************************************)
(* The process in an environment that changes while it runs.               *)
(***************************************************************************)
\* process.env.OPENROUTER_API_KEY is set, changed or deleted.
SetEnv ==
    /\ env' \in Credentials \ {env}
    /\ UNCHANGED <<pcMain, openRouterApiKey, promptFile, promptText, registry, registerResult, file, inv, storeLog>>

\* css_updater_prompt.txt is edited, deleted or put back after
\* registerCssTutorPrompt has read it.
SetPromptFile ==
    /\ pcMain # "registerPrompts"
    /\ promptFile' \in PromptFiles \ {promptFile}
    /\ UNCHANGED <<pcMain, openRouterApiKey, env, promptText, registry, registerResult, file, inv, storeLog>>

NextEnv == Next \/ SetEnv

SpecEnv == Init /\ [][NextEnv]_vars

NextPromptFile == Next \/ SetPromptFile

SpecPromptFile == Init /\ [][NextPromptFile]_vars

(***************************************************************************)
(* The registry on its own: registrations in any order, a name registered  *)
(* twice among them.                                                       *)
(***************************************************************************)
\* The capabilities of the server, and others under names of theirs: a
\* second read_from_memory with another handler, and tools named as the
\* resource and as the prompt are.
Capabilities ==
    { Capability("css-tutor-guidance", "prompt", "cssTutorPrompt"),
      Capability("css_knowledge_memory", "resource", "cssKnowledgeMemory"),
      Capability("read_from_memory", "tool", "readFromMemory"),
      Capability("write_to_memory", "tool", "writeToMemory"),
      Capability("get_latest_updates", "tool", "getLatestUpdates"),
      Capability("read_from_memory", "tool", "writeToMemory"),
      Capability("css_knowledge_memory", "tool", "readFromMemory"),
      Capability("css-tutor-guidance", "tool", "getLatestUpdates") }

InitRegistry ==
    /\ pcMain = "registerPrompts"
    /\ openRouterApiKey = "sk-or-v1"
    /\ env = "sk-or-v1"
    /\ promptFile = cssTutorPromptText
    /\ promptText = cssTutorPromptText
    /\ registry = <<>>
    /\ registerResult = NoRegistration
    /\ file = NoFile
    /\ inv = [i \in Invocations |-> Idle]
    /\ storeLog = <<>>

RegisterCapability ==
    \E cap \in Capabilities :
        LET r == Register(registry, cap) IN
        /\ registry' = r.reg
        /\ registerResult' = [ok |-> r.ok, cap |-> r.cap]
        /\ UNCHANGED <<pcMain, openRouterApiKey, env, promptFile, promptText, file, inv, storeLog>>

SpecRegistry == InitRegistry /\ [][RegisterCapability]_vars

(***************************************************************************)
(* The store on its own: writeMemory() and readMemory() called with any    *)
(* document, valid or not, as write_to_memory and the readers call them:   *)
(* a call may start while an earlier one still waits for the file system.  *)
(***************************************************************************)
\* The values writeMemory may be handed.
StoreDocs ==
    { Doc(JStr("u1"), JObj(<<>>)),
      Doc(JStr("u1"), JObj(<<Member("Flexbox", JBool(TRUE))>>)),
      Doc(JStr("u2"), JObj(<<Member("Grid", JBool(FALSE)), Member("Subgrid", JBool(TRUE))>>)),
      \* a user_id that is no string
      Doc(JNum("7"), JObj(<<>>)),
      \* a value under known_concepts that is no boolean
      Doc(JStr("u1"), JObj(<<Member("Grid", JStr("yes"))>>)),
      \* no known_concepts
      JObj(<<Member("user_id", JStr("u1"))>>) }

\* writeMemory(newData) from its call to the await of fs.writeFile.
writeMemory(rec, newData) ==
    LET w == writeMemoryPrepare(newData) IN
    IF ~w.ok THEN Done(rec, Failure(w.error))
    ELSE [rec EXCEPT !.pc = "writeFile", !.data = w.data]

InitStore ==
    /\ pcMain = "running"
    /\ openRouterApiKey = NoKey
    /\ env = NoKey
    /\ promptFile = NoPromptFile
    /\ promptText = NoPromptFile
    /\ registry = <<>>
    /\ registerResult = NoRegistration
    /\ file \in SeedFiles
    /\ inv = [i \in Invocations |-> Idle]
    /\ storeLog = <<>>

CallWriteMemory(i) ==
    /\ inv[i].pc = "idle"
    /\ \A j \in 1..(i - 1) : inv[j].pc # "idle"
    /\ \E doc \in StoreDocs :
         Set(i, writeMemory([Idle EXCEPT !.handler = "writeMemory", !.args = doc], doc))
    /\ UNCHANGED <<pcMain, openRouterApiKey, env, promptFile, promptText, registry, registerResult, file, storeLog>>

CallReadMemory(i) ==
    /\ inv[i].pc = "idle"
    /\ \A j \in 1..(i - 1) : inv[j].pc # "idle"
    /\ Set(i, [Idle EXCEPT !.handler = "readMemory", !.pc = "readFile"])
    /\ UNCHANGED <<pcMain, openRouterApiKey, env, promptFile, promptText, registry, registerResult, file, storeLog>>

\* fs.readFile completes and readMemory() returns the document or throws.
ReadFile(i) ==
    /\ inv[i].pc = "readFile"
    /\ LET r == readMemory(file) IN
       Set(i, IF r.ok THEN Done([inv[i] EXCEPT !.currentMemory = r.val], Success(<<>>))
              ELSE Done(inv[i], Failure(r.error)))
    /\ Logged(i, "read")
    /\ UNCHANGED <<pcMain, openRouterApiKey, env, promptFile, promptText, registry, registerResult, file>>

\* fs.writeFile writes the text and writeMemory() returns.
WriteFileDone(i) ==
    /\ inv[i].pc = "writeFile.write"
    /\ file' = WriteAtStart(file, inv[i].data)
    /\ Set(i, Done(inv[i], Success(<<>>)))
    /\ Logged(i, "write")
    /\ UNCHANGED <<pcMain, openRouterApiKey, env, promptFile, promptText, registry, registerResult>>

NextStore ==
    \E i \in Invocations :
        \/ CallWriteMemory(i)
        \/ CallReadMemory(i)
        \/ ReadFile(i)
        \/ WriteFileOpen(i)
        \/ WriteFileFail(i)
        \/ WriteFileDone(i)

SpecStore == InitStore /\ [][NextStore]_vars
(***************************************************************************)
(* Properties.                                                             *)
(***************************************************************************)
IsWrite(i) == inv[i].handler = "writeToMemory"
Concept(i) == Get(inv[i].args, "concept").s
Known(i) == Get(inv[i].args, "known")
KnownConcepts(doc) == Get(doc, "known_concepts")

\* Positions p..p+2 of the log are the read, the emptying and the write of
\* one write_to_memory invocation, with no other access between them.
UpdateAt(p) ==
    /\ p + 2 <= Len(storeLog)
    /\ storeLog[p].op = "read"
    /\ storeLog[p + 1].op = "truncate"
    /\ storeLog[p + 2].op = "write"
    /\ storeLog[p + 1].inv = storeLog[p].inv
    /\ storeLog[p + 2].inv = storeLog[p].inv

\* Position p of the log is the read of a finished invocation of `handler`.
ReadAt(p, handler) ==
    /\ p <= Len(storeLog)
    /\ storeLog[p].op = "read"
    /\ inv[storeLog[p].inv].handler = handler
    /\ inv[storeLog[p].inv].pc = "done"

\* C1: a successful write_to_memory(concept, known) followed by
\* read_from_memory returns a document in which known_concepts[concept] is
\* known and every other concept the write found keeps its value.
C1_WriteThenRead ==
    \A p \in 1..Len(storeLog) :
        (UpdateAt(p) /\ ReadAt(p + 3, "readFromMemory")) =>
            LET w == storeLog[p].inv
                r == inv[storeLog[p + 3].inv].result
                before == KnownConcepts(inv[w].currentMemory)
                after == KnownConcepts(JsonParse(r.text).val)
            IN  /\ inv[w].result.status = "success"
                /\ r.status = "success"
                /\ JsonParse(r.text).ok
                /\ Get(after, Concept(w)) = Known(w)
                /\ \A k \in Keys(before) \ {Concept(w)} : Get(after, k) = Get(before, k)

\* C1 happens: a write of a new concept to a document that holds another
\* one, then a read.
C1_Witness ==
    \E p \in 1..Len(storeLog) :
        /\ UpdateAt(p)
        /\ ReadAt(p + 3, "readFromMemory")
        /\ Keys(KnownConcepts(inv[storeLog[p].inv].currentMemory))
             \ {Concept(storeLog[p].inv)} # {}

\* C2: write_to_memory with the empty concept always fails with
\* InvalidInput and never touches the file.
C2_EmptyConceptRefused ==
    \A i \in Invocations :
        (/\ inv[i].pc # "idle"
         /\ inv[i].kind = "tool"
         /\ inv[i].name = "write_to_memory"
         /\ Get(inv[i].args, "concept") = JStr("")) =>
            /\ inv[i].pc = "done"
            /\ inv[i].result = Failure(InvalidInput(inv[i].name))
            /\ \A p \in 1..Len(storeLog) : storeLog[p].inv # i

\* Positions p and p+1 of the log are the reads of a finished resource read
\* and a finished read_from_memory, in either order: both saw the same file.
SameStateReads(p) ==
    \/ ReadAt(p, "cssKnowledgeMemory") /\ ReadAt(p + 1, "readFromMemory")
    \/ ReadAt(p, "readFromMemory") /\ ReadAt(p + 1, "cssKnowledgeMemory")

\* C3 as stated: for the same file the resource and read_from_memory return
\* the same text, byte for byte.
C3_ByteIdentical ==
    \A p \in 1..Len(storeLog) :
        SameStateReads(p) =>
            inv[storeLog[p].inv].result = inv[storeLog[p + 1].inv].result

\* C3 as amended: for the same file the two either fail with the same error
\* or return two serialisations of the same document: the texts parse to
\* equal documents and are the same tokens once whitespace is dropped, the
\* resource's text holding none.
C3_SameDocument ==
    \A p \in 1..Len(storeLog) :
        SameStateReads(p) =>
            LET a == inv[storeLog[p].inv].result
                b == inv[storeLog[p + 1].inv].result
                res == IF inv[storeLog[p].inv].handler = "cssKnowledgeMemory" THEN a ELSE b
            IN  /\ a.status = b.status
                /\ a.error = b.error
                /\ a.status = "success" =>
                     /\ JsonParse(a.text).ok
                     /\ JsonParse(a.text) = JsonParse(b.text)
                     /\ StripWs(a.text) = StripWs(b.text)
                     /\ StripWs(res.text) = res.text

\* C3 happens: both read a document with a concept in it.
C3_Witness ==
    \E p \in 1..Len(storeLog) :
        /\ SameStateReads(p)
        /\ inv[storeLog[p].inv].result.status = "success"
        /\ Keys(KnownConcepts(JsonParse(inv[storeLog[p].inv].result.text).val)) # {}

\* C4: invocations run one at a time: between the read of a write_to_memory
\* invocation and its write, no other invocation accesses the file.
C4_OneAtATime ==
    \A p, q, r \in 1..Len(storeLog) :
        (/\ p < q /\ q < r
         /\ storeLog[p].inv = storeLog[r].inv
         /\ IsWrite(storeLog[p].inv)
         /\ storeLog[p].op = "read"
         /\ storeLog[r].op = "write") =>
            storeLog[q].inv = storeLog[p].inv

\* The file fails the schema: it parses, and MemorySchema refuses it.
FileFailsSchema ==
    /\ file # NoFile
    /\ JsonParse(file).ok
    /\ LET v == JsonParse(file).val IN
       ~(/\ v.t = "object"
         /\ Get(v, "user_id").t = "string"
         /\ Get(v, "known_concepts").t = "object"
         /\ \A j \in 1..Len(Get(v, "known_concepts").m) :
                Get(v, "known_concepts").m[j].v.t \in {"boolean"})

\* C5: readMemory() on a file that fails the schema fails, with the error
\* of the validation, and nothing is written: the handler that called it
\* ends there and the file is as it was.
C5_CorruptStateFails ==
    [][\A i \in Invocations :
        (inv[i].pc = "readMemory" /\ inv'[i].pc # "readMemory" /\ FileFailsSchema) =>
            /\ inv'[i].pc = "done"
            /\ inv'[i].result = Failure(ReadError("ZodError"))
            /\ file' = file]_vars

\* C5 happens: an invocation has failed on a file that fails the schema.
C5_Witness ==
    \E i \in Invocations :
        /\ inv[i].pc = "done"
        /\ inv[i].result = Failure(ReadError("ZodError"))
        /\ FileFailsSchema

Registered(name) == \E e \in 1..Len(registry) : registry[e].name = name

\* C6: with no key, get_latest_updates is never registered and every
\* invocation of it fails as an unknown capability.
C6_NoKeyNoUpdatesTool ==
    (openRouterApiKey = NoKey \/ openRouterApiKey = "") =>
        /\ ~Registered("get_latest_updates")
        /\ \A i \in Invocations :
            (inv[i].pc # "idle" /\ inv[i].name = "get_latest_updates") =>
                /\ inv[i].pc = "done"
                /\ inv[i].result = Failure(UnknownCapability("get_latest_updates"))
                /\ inv[i].requests = 0

\* C6 happens: with no key, get_latest_updates was invoked.
C6_Witness ==
    /\ openRouterApiKey = NoKey
    /\ \E i \in Invocations : inv[i].pc = "done" /\ inv[i].name = "get_latest_updates"

\* What the three modules register when the key is present.
RegistryWithKey ==
    registerTools(registerResources(registerPrompts(<<>>, promptFile).reg).reg, "sk-or-v1").reg

StartupDone == pcMain \in {"main", "running", "exited"}

\* C7: with no key, startup registers what it registers with a key, less
\* get_latest_updates: the same names, kinds and handlers in the same
\* order; the resource and the two memory tools are among them, and no
\* invocation of them is refused as unknown.
C7_OthersUnaffected ==
    ((openRouterApiKey = NoKey \/ openRouterApiKey = "") /\ StartupDone) =>
        /\ registry = SelectSeq(RegistryWithKey, LAMBDA c : c.name # "get_latest_updates")
        /\ Registered("css_knowledge_memory")
        /\ Registered("read_from_memory")
        /\ Registered("write_to_memory")
        /\ promptFile # NoPromptFile => Registered("css-tutor-guidance")
        /\ \A i \in Invocations :
            (inv[i].pc # "idle" /\ Registered(inv[i].name)) =>
                inv[i].result.error # UnknownCapability(inv[i].name)

\* C7 happens: with no key, the guidance was returned and a write and a
\* read of the memory succeeded.
C7_Witness ==
    /\ openRouterApiKey = NoKey
    /\ \E i, j \in Invocations :
        /\ inv[i].handler = "writeToMemory" /\ inv[i].result.status = "success"
        /\ inv[j].handler = "readFromMemory" /\ inv[j].result.status = "success"

\* C8: registering a capability under a name that is already registered
\* fails, and the capability registered first under that name stays
\* registered, with its kind and handler, and a request for it is still
\* dispatched to that handler.
C8_DuplicateRefused ==
    [][\A cap \in Capabilities :
        (/\ Registered(cap.name)
         /\ registerResult' # registerResult
         /\ registerResult'.cap = cap) =>
            LET first == registry[FindCapability(registry, cap.name, 1)] IN
            /\ registerResult' = [ok |-> FALSE, cap |-> cap]
            /\ registry' = registry
            /\ Lookup(registry', first.kind, first.name) # 0
            /\ registry'[Lookup(registry', first.kind, first.name)].handler = first.handler
            /\ Invoke(registry', Request(first.kind, first.name, JObj(<<>>)), promptFile).result.error
                 # UnknownCapability(first.name)]_vars

\* C8 happens: a capability was refused whose name belongs to a capability
\* with another handler.
C8_Witness ==
    /\ ~registerResult.ok
    /\ \E e \in 1..Len(registry) :
        /\ registry[e].name = registerResult.cap.name
        /\ registry[e].handler # registerResult.cap.handler

\* The body of a response has choices[0].message.content.
HasContent(v) ==
    /\ v.t = "object" /\ HasKey(v, "choices")
    /\ Get(v, "choices").t = "array" /\ Len(Get(v, "choices").e) > 0
    /\ Get(v, "choices").e[1].t = "object" /\ HasKey(Get(v, "choices").e[1], "message")
    /\ Get(Get(v, "choices").e[1], "message").t = "object"
    /\ HasKey(Get(Get(v, "choices").e[1], "message"), "content")

\* Invocation i got an ok response whose JSON body lacks the field.
LacksContent(i) ==
    /\ inv[i].handler = "getLatestUpdates"
    /\ inv[i].response # NoResponse
    /\ ResponseOk(inv[i].response)
    /\ JsonParse(inv[i].response.body).ok
    /\ ~HasContent(JsonParse(inv[i].response.body).val)

\* C9: an ok response without choices[0].message.content makes
\* get_latest_updates fail: the result is a failure (the error that no
\* message could be extracted, or for the body null the TypeError of
\* reading choices of null), never a success, and the process runs on.
C9_MissingContentFails ==
    \A i \in Invocations :
        (LacksContent(i) /\ inv[i].pc = "done") =>
            /\ inv[i].result.status = "failure"
            /\ inv[i].result.text = <<>>
            /\ JsonParse(inv[i].response.body).val.t # "null" =>
                 inv[i].result.error.message
                    = "Could not extract assistant message from OpenRouter response."
            /\ pcMain = "running"

\* C9 happens: such a response was handled.
C9_Witness ==
    \E i \in Invocations :
        /\ LacksContent(i) /\ inv[i].pc = "done"
        /\ JsonParse(inv[i].response.body).val.t = "object"

\* Invocation i got a response that is not ok.
NotOk(i) ==
    /\ inv[i].handler = "getLatestUpdates"
    /\ inv[i].response # NoResponse
    /\ ~(inv[i].response.status \in 200..299)

\* C10: a response that is not ok makes get_latest_updates fail with an
\* error whose message carries the status and the body, and the body is
\* never parsed.
C10_NotOkFails ==
    \A i \in Invocations :
        NotOk(i) =>
            /\ inv[i].pc \in {"response.text", "done"}
            /\ inv[i].pc = "done" =>
                 LET e == inv[i].result.error
                     body == inv[i].response.body
                 IN  /\ inv[i].result.status = "failure"
                     /\ e.message = "OpenRouter API request failed: "
                     /\ e.detail[1] = NumTok(ToString(inv[i].response.status))
                     /\ e.detail[3] = StrTok(inv[i].response.statusText)
                     /\ SubSeq(e.detail, Len(e.detail) - Len(body) + 1, Len(e.detail)) = body

\* C10 happens: a 401 with a body was handled.
C10_Witness ==
    \E i \in Invocations :
        NotOk(i) /\ inv[i].pc = "done" /\ Len(inv[i].response.body) > 0

\* The content of choices[0].message of the body of invocation i's response.
Content(i) ==
    Get(Get(Get(JsonParse(inv[i].response.body).val, "choices").e[1], "message"), "content")

\* Invocation i got an ok response whose JSON body has the field, a string.
HasStringContent(i) ==
    /\ inv[i].handler = "getLatestUpdates"
    /\ inv[i].response # NoResponse
    /\ ResponseOk(inv[i].response)
    /\ JsonParse(inv[i].response.body).ok
    /\ HasContent(JsonParse(inv[i].response.body).val)
    /\ Content(i).t = "string"

\* C11: an ok response whose choices[0].message.content is a string, the
\* empty string included, makes get_latest_updates succeed with exactly
\* that string as its text.
C11_ContentReturned ==
    \A i \in Invocations :
        (HasStringContent(i) /\ inv[i].pc = "done") =>
            inv[i].result = Success(<<StrTok(Content(i).s)>>)

\* Invocation i got an ok response whose body is no JSON.
Malformed(i) ==
    /\ inv[i].handler = "getLatestUpdates"
    /\ inv[i].response # NoResponse
    /\ ResponseOk(inv[i].response)
    /\ ~JsonParse(inv[i].response.body).ok

\* C12: an invocation of get_latest_updates calls fetch() exactly once,
\* whatever comes back: from the start of its handler on, waiting or
\* finished, succeeded or failed, it has issued one request, and an
\* invocation of anything else has issued none.
C12_OneRequest ==
    \A i \in Invocations :
        /\ inv[i].handler = "getLatestUpdates" => inv[i].requests = 1
        /\ inv[i].handler # "getLatestUpdates" => inv[i].requests = 0

\* C12 happens: one invocation has failed on a response that is not ok and
\* another on a body that is no JSON.
C12_Witness ==
    \E i, j \in Invocations :
        /\ NotOk(i) /\ inv[i].pc = "done" /\ inv[i].result.status = "failure"
        /\ Malformed(j) /\ inv[j].pc = "done" /\ inv[j].result.status = "failure"

\* A value is a document of the schema: user_id a string, known_concepts a
\* mapping from strings to booleans.
SchemaValid(v) ==
    /\ v.t = "object"
    /\ HasKey(v, "user_id") /\ Get(v, "user_id").t = "string"
    /\ HasKey(v, "known_concepts") /\ Get(v, "known_concepts").t = "object"
    /\ \A k \in Keys(Get(v, "known_concepts")) :
           Get(Get(v, "known_concepts"), k).t = "boolean"

\* C13: writeMemory(doc) validates before it touches the file: the call of
\* an invalid doc ends at once with the validation error, the file and the
\* log of accesses as they were, and the call of a valid one goes on to
\* fs.writeFile; when writeMemory(doc) returns, the file holds doc and
\* nothing else.
C13_ValidateThenReplace ==
    [][\A i \in Invocations :
        /\ (inv[i].pc = "idle" /\ inv'[i].handler = "writeMemory") =>
             /\ file' = file
             /\ storeLog' = storeLog
             /\ IF SchemaValid(inv'[i].args)
                THEN inv'[i].pc = "writeFile"
                ELSE /\ inv'[i].pc = "done"
                     /\ inv'[i].result = Failure(WriteError("ZodError"))
        /\ (/\ inv[i].handler = "writeMemory"
            /\ inv[i].pc # "done"
            /\ inv'[i].pc = "done"
            /\ inv'[i].result.status = "success") =>
             /\ JsonParse(file').ok
             /\ JsonParse(file').val = inv[i].args]_vars

\* readMemory() on the file as it is throws: the file is missing, is no
\* JSON, or is no document of the schema.
StoreUnreadable ==
    \/ file = NoFile
    \/ ~JsonParse(file).ok
    \/ ~SchemaValid(JsonParse(file).val)

\* The accesses of kind op that invocation i has made to the file.
Accesses(log, i, op) == {p \in 1..Len(log) : log[p].inv = i /\ log[p].op = op}

\* The step ends invocation i with a failure that carries `message`.
FailsWith(i, message) ==
    /\ inv'[i].pc = "done"
    /\ inv'[i].result.status = "failure"
    /\ inv'[i].result.text = <<>>
    /\ inv'[i].result.error.message = message

\* C14: a failure inside a handler ends the invocation with a failed
\* result: a read of the file that throws, a write that cannot open the
\* file, a fetch that rejects, a response that is not ok and an ok response
\* that is no JSON or lacks the content each end it at that step with the
\* error of that step, never with a success; and nothing is tried again:
\* a finished invocation stays as it is, and no invocation reads the file,
\* opens it for writing or calls fetch a second time.
C14_FailuresSurfaced ==
    [][\A i \in Invocations :
        /\ (inv[i].pc = "readMemory" /\ inv'[i].pc # "readMemory" /\ StoreUnreadable) =>
             FailsWith(i, "Failed to read/parse memory file: ")
        /\ (inv[i].pc = "writeFile" /\ inv'[i].pc \notin {"writeFile", "writeFile.write"}) =>
             FailsWith(i, "Failed to validate/write memory file: ")
        /\ (inv[i].pc = "fetch" /\ inv'[i].pc \notin {"fetch", "response.text", "response.json"}) =>
             FailsWith(i, "request to https://openrouter.ai/api/v1/chat/completions failed")
        /\ (inv[i].pc = "response.text" /\ inv'[i].pc # "response.text") =>
             FailsWith(i, "OpenRouter API request failed: ")
        /\ (inv[i].pc = "response.json" /\ inv'[i].pc # "response.json" /\ Malformed(i)) =>
             FailsWith(i, "invalid json response body")
        /\ (inv[i].pc = "response.json" /\ inv'[i].pc # "response.json" /\ LacksContent(i)) =>
             /\ inv'[i].pc = "done"
             /\ inv'[i].result.status = "failure"
        /\ inv[i].pc = "done" => inv'[i] = inv[i]
        /\ inv'[i].requests <= 1
        /\ Cardinality(Accesses(storeLog', i, "read")) <= 1
        /\ Cardinality(Accesses(storeLog', i, "truncate")) <= 1]_vars

\* C14 happens: one invocation has failed because the file could not be
\* opened for writing and another because the provider answered 401.
C14_Witness ==
    \E i, j \in Invocations :
        /\ inv[i].pc = "done" /\ inv[i].result = Failure(WriteError("EACCES"))
        /\ inv[j].pc = "done" /\ NotOk(j) /\ inv[j].result.status = "failure"

\* C15: once the registrations of startup are done the registry never
\* changes, whatever is invoked and whatever becomes of the key in the
\* environment; get_latest_updates is registered exactly if the key was
\* there when src/tools/index.ts was loaded, and a request for it is
\* answered by that alone: with the tool registered its handler starts and
\* calls fetch, without it the request fails as unknown, whether or not the
\* environment holds a key at the time of the request.
C15_RegistryFixed ==
    [][/\ StartupDone => registry' = registry
       /\ openRouterApiKey' = openRouterApiKey
       /\ StartupDone =>
            (Registered("get_latest_updates") <=> openRouterApiKey \notin {NoKey, ""})
       /\ \A i \in Invocations :
            (inv[i].pc = "idle" /\ inv'[i].name = "get_latest_updates") =>
                IF Registered("get_latest_updates")
                THEN inv'[i].pc = "fetch" /\ inv'[i].requests = 1
                ELSE /\ inv'[i].pc = "done"
                     /\ inv'[i].result = Failure(UnknownCapability("get_latest_updates"))]_vars

\* C15 happens: the server started with the key, the environment holds
\* none any more, and the tool has answered one request and is in the
\* middle of another.
C15_Witness ==
    /\ openRouterApiKey = "sk-or-v1"
    /\ env = NoKey
    /\ inv[1].name = "get_latest_updates" /\ inv[1].pc = "done"
    /\ inv[1].result.status = "success"
    /\ inv[2].name = "get_latest_updates" /\ inv[2].pc = "fetch"

\* The server started without the key, the key was set afterwards, and the
\* tool is still unknown.
C15_WitnessSetLater ==
    /\ openRouterApiKey = NoKey
    /\ env = "sk-or-v1"
    /\ \E i \in Invocations :
        /\ inv[i].name = "get_latest_updates"
        /\ inv[i].result = Failure(UnknownCapability("get_latest_updates"))

\* Position q of the log is a read that falls into the write of invocation
\* w: after w opened the file and before w wrote its text.
ReadDuringWrite(w, q) ==
    /\ storeLog[q].op = "read"
    /\ storeLog[q].inv # w
    /\ \E p \in 1..(q - 1) : storeLog[p].inv = w /\ storeLog[p].op = "truncate"
    /\ \A r \in 1..(q - 1) : ~(storeLog[r].inv = w /\ storeLog[r].op = "write")

\* C16: a write replaces the file as a whole: a read that falls into a
\* write sees the whole document from before the write or the whole new
\* one; it does not fail, and a reader that returns the document returns
\* one of the two.
C16_AtomicReplace ==
    \A w \in Invocations : \A q \in 1..Len(storeLog) :
        (ReadDuringWrite(w, q) /\ inv[storeLog[q].inv].pc = "done") =>
            LET reader == inv[storeLog[q].inv] IN
            /\ reader.result.error.message # "Failed to read/parse memory file: "
            /\ reader.handler \in {"readFromMemory", "cssKnowledgeMemory"} =>
                 /\ reader.result.status = "success"
                 /\ JsonParse(reader.result.text).val
                      \in {inv[w].currentMemory, JsonParse(inv[w].data).val}

\* The file holds a document of the schema.
FileValid ==
    /\ file # NoFile
    /\ JsonParse(file).ok
    /\ SchemaValid(JsonParse(file).val)

\* What the handlers hold of the store is valid: the document readMemory()
\* returned to write_to_memory, the document a reader returned to the
\* client, and the text writeMemory() hands to fs.writeFile.
HandlersSeeValid ==
    \A i \in Invocations :
        /\ (inv[i].handler = "writeToMemory" /\ inv[i].pc \in {"writeFile", "writeFile.write"}) =>
             SchemaValid(inv[i].currentMemory)
        /\ (/\ inv[i].handler \in {"readFromMemory", "cssKnowledgeMemory"}
            /\ inv[i].result.status = "success") =>
             /\ JsonParse(inv[i].result.text).ok
             /\ SchemaValid(JsonParse(inv[i].result.text).val)
        /\ inv[i].data # <<>> =>
             /\ JsonParse(inv[i].data).ok
             /\ SchemaValid(JsonParse(inv[i].data).val)

\* An invocation has read a document from the file.  No write comes before
\* the first read that succeeds, so the file it read was the seed, and the
\* seed was valid.
SeedWasValid ==
    \E i \in Invocations :
        \/ inv[i].handler = "writeToMemory" /\ inv[i].currentMemory # JNull
        \/ /\ inv[i].handler \in {"readFromMemory", "cssKnowledgeMemory"}
           /\ inv[i].result.status = "success"

\* C17: every document readMemory() returns to a handler and every document
\* writeMemory() persists is valid, and from a valid seed on the file holds
\* a valid document in every state.
C17_AlwaysValid ==
    /\ HandlersSeeValid
    /\ SeedWasValid => FileValid

\* The place of the first mention of `name` in a text, 0 if there is none.
RECURSIVE FirstMention(_, _, _)
FirstMention(text, name, i) ==
    IF i > Len(text) THEN 0
    ELSE IF text[i] = StrTok(name) THEN i
    ELSE FirstMention(text, name, i + 1)

\* Invocation i is a finished request for the guidance that succeeded.
GuidanceReturned(i) ==
    /\ inv[i].kind = "prompt"
    /\ inv[i].name = "css-tutor-guidance"
    /\ inv[i].pc = "done"
    /\ inv[i].result.status = "success"

\* C18: the text css-tutor-guidance returns mentions get_latest_updates
\* first, then read_from_memory, then write_to_memory, and it is the same
\* text at every invocation, whatever has become of the prompt file since
\* the server started.
C18_GuidanceInOrder ==
    \A i \in Invocations :
        GuidanceReturned(i) =>
            LET text == inv[i].result.text IN
            /\ FirstMention(text, "get_latest_updates", 1) > 0
            /\ FirstMention(text, "get_latest_updates", 1) < FirstMention(text, "read_from_memory", 1)
            /\ FirstMention(text, "read_from_memory", 1) < FirstMention(text, "write_to_memory", 1)
            /\ \A j \in Invocations : GuidanceReturned(j) => inv[j].result.text = text

\* C18 happens: the guidance was returned twice, the second time after the
\* prompt file had been edited.
C18_Witness ==
    /\ GuidanceReturned(1)
    /\ GuidanceReturned(2)
    /\ promptFile \notin {NoPromptFile, promptText}

\* C19: when the read of write_to_memory fails, the invocation ends there
\* with the error of the read and the file is as it was; such an
\* invocation never opens the file for writing; and a file that does not
\* exist is never created.
C19_FailedReadNoWrite ==
    [][/\ \A i \in Invocations :
            /\ (IsWrite(i) /\ inv[i].pc = "readMemory" /\ inv'[i].pc # "readMemory"
                  /\ StoreUnreadable) =>
                 /\ FailsWith(i, "Failed to read/parse memory file: ")
                 /\ file' = file
            /\ (IsWrite(i) /\ inv[i].result.error.message = "Failed to read/parse memory file: ") =>
                 /\ inv'[i] = inv[i]
                 /\ Accesses(storeLog', i, "truncate") = {}
                 /\ Accesses(storeLog', i, "write") = {}
       /\ file = NoFile => file' = NoFile]_vars

\* C19 happens: write_to_memory has failed on a file that does not exist.
C19_Witness ==
    /\ file = NoFile
    /\ \E i \in Invocations :
        /\ IsWrite(i) /\ inv[i].pc = "done"
        /\ inv[i].result = Failure(ReadError("ENOENT"))

\* The step is one of writeMemory() called by write_to_memory invocation i.
WriteStepOf(i) ==
    /\ IsWrite(i)
    /\ inv[i].pc \in {"writeFile", "writeFile.write"}
    /\ inv'[i].pc # inv[i].pc

\* C20: read_from_memory, the resource, the guidance and get_latest_updates
\* never change the file: every step that changes it is a step of a
\* write_to_memory invocation, no step of any other invocation does, and
\* the only access any other invocation makes to the file is a read.
C20_ReadersLeaveStore ==
    [][/\ file' # file => \E i \in Invocations : WriteStepOf(i)
       /\ \A i \in Invocations :
            (inv'[i] # inv[i] /\ inv'[i].handler # "writeToMemory") =>
                /\ file' = file
                /\ Accesses(storeLog', i, "truncate") = {}
                /\ Accesses(storeLog', i, "write") = {}]_vars

\* C20 happens: a read of the resource and a get_latest_updates have both
\* succeeded on a file that holds a document.
C20_Witness ==
    /\ file # NoFile
    /\ \E i, j \in Invocations :
        /\ inv[i].handler = "cssKnowledgeMemory" /\ inv[i].result.status = "success"
        /\ inv[j].handler = "getLatestUpdates" /\ inv[j].result.status = "success"

UserId(doc) == Get(doc, "user_id")

\* The first position of the log at which the file is opened for writing,
\* 0 if it never was.
RECURSIVE FirstTruncate(_)
FirstTruncate(p) ==
    IF p > Len(storeLog) THEN 0
    ELSE IF storeLog[p].op = "truncate" THEN p
    ELSE FirstTruncate(p + 1)

\* The document of the seed.  Nothing changes the file before the first
\* time it is opened for writing, and the invocation that opens it has read
\* it before: what that invocation read is the seed.
SeedDocument == inv[storeLog[FirstTruncate(1)].inv].currentMemory

\* The writes follow one another: each time the file is opened for writing
\* the text is written before anything else touches the file, and between
\* the read of that invocation and its write the others only read.
WritesInSequence ==
    \A p \in 1..Len(storeLog) :
        storeLog[p].op = "truncate" =>
            /\ p + 1 <= Len(storeLog)
            /\ storeLog[p + 1] = [inv |-> storeLog[p].inv, op |-> "write"]
            /\ \E q \in 1..(p - 1) :
                /\ storeLog[q] = [inv |-> storeLog[p].inv, op |-> "read"]
                /\ \A r \in (q + 1)..(p - 1) : storeLog[r].op = "read"

\* C21: write_to_memory leaves user_id as it read it: the document an
\* invocation hands to writeMemory() has the user_id of the document it
\* read; whenever the file holds a document after it was written to, the
\* user_id of that document is the user_id of the seed; and after writes
\* that followed one another the file does hold a document.
C21_OwnerKept ==
    /\ \A i \in Invocations :
        (IsWrite(i) /\ inv[i].data # <<>>) =>
            UserId(JsonParse(inv[i].data).val) = UserId(inv[i].currentMemory)
    /\ (FirstTruncate(1) # 0 /\ FileValid) =>
            UserId(JsonParse(file).val) = UserId(SeedDocument)
    /\ (FirstTruncate(1) # 0 /\ WritesInSequence) =>
            /\ FileValid
            /\ UserId(JsonParse(file).val) = UserId(SeedDocument)

\* C21 happens: two write_to_memory invocations have succeeded one after
\* the other on a seed of the user u1.
C21_Witness ==
    /\ WritesInSequence
    /\ \A i \in Invocations :
        IsWrite(i) /\ inv[i].pc = "done" /\ inv[i].result.status = "success"
    /\ storeLog[FirstTruncate(1)].inv # storeLog[Len(storeLog)].inv
    /\ UserId(JsonParse(file).val) = JStr("u1")

\* C22: when css_updater_prompt.txt cannot be read at startup, nothing but
\* a log line comes of it: css-tutor-guidance is not registered and a
\* request for it fails as unknown, the registration does not end the
\* process, and the resource and the tools are registered as they are
\* when the file can be read.
C22_PromptLoadFailureLogged ==
    promptFile = NoPromptFile =>
        /\ ~Registered("css-tutor-guidance")
        /\ pcMain # "crashed"
        /\ registerResult.ok
        /\ pcMain # "registerPrompts" => promptText = NoPromptFile
        /\ StartupDone =>
            /\ Registered("css_knowledge_memory")
            /\ Registered("read_from_memory")
            /\ Registered("write_to_memory")
            /\ Registered("get_latest_updates") <=> ~KeyMissing(openRouterApiKey)
            /\ registry = registerTools(registerResources(<<>>).reg, openRouterApiKey).reg
        /\ \A i \in Invocations :
            (inv[i].pc # "idle" /\ inv[i].name = "css-tutor-guidance") =>
                inv[i].result = Failure(UnknownCapability("css-tutor-guidance"))

\* C22 happens: the server runs without the prompt file, a request for the
\* guidance was refused and a read of the resource was served.
C22_Witness ==
    /\ promptFile = NoPromptFile
    /\ pcMain = "running"
    /\ \E i, j \in Invocations :
        /\ inv[i].name = "css-tutor-guidance" /\ inv[i].pc = "done"
        /\ inv[j].handler = "cssKnowledgeMemory" /\ inv[j].pc = "done"
====
